---------------------------- MODULE Spec2Model ----------------------------
(***************************************************************************)
(* Model of the 3-d SU(2) lattice gauge simulation                         *)
(* (src/latticeYM3d-simulation.py).                                        *)
(*                                                                         *)
(* Real numbers are fixed-point integers with One standing for 1.0; a     *)
(* complex 2x2 matrix [[a,b],[c,d]] is the 8-tuple                         *)
(*   <<Re a, Im a, Re b, Im b, Re c, Im c, Re d, Im d>>.                   *)
(* The IEEE value nan is the integer NaN, outside the range of every       *)
(* finite value of the model.                                              *)
(***************************************************************************)
EXTENDS Integers, Sequences, FiniteSets, TLC

\* ------------------------------------------------------------------ bounds
\* lattice extent (L = 32 in the source's run)
L == 3
\* thermalisation sweeps (1000 in the source's run)
n_therm == 1
\* measurements (3000 in the source's run)
n_meas == 2
\* sweeps between measurements (5 in the source's run)
n_skip == 1

\* smearing rounds of the Wilson-loop field (10 in the source's run)
wilson_smear_steps == 1
\* Wilson-loop extents (6, 6 in the source's run)
R_max == 2
T_max == 2

\* ------------------------------------------------------ evaluation helpers
\* LET y == v IN F(y), with v computed once
Let1(v, F(_)) == CHOOSE r \in {F(y) : y \in {v}} : TRUE

\* an array as a stored value: the function f with every element computed
Array(f) == CHOOSE y \in {z \in {f} : z = z} : TRUE

\* ------------------------------------------------------- fixed-point reals
One == 2^12
NaN == -(2^30)

\* x / d rounded to nearest, symmetric about 0 (so that -x / d = -(x / d))
RDiv(x, d) ==
    IF x >= 0 THEN (2 * x + d) \div (2 * d) ELSE -((2 * (-x) + d) \div (2 * d))

\* product and quotient of two fixed-point reals
FMul(x, y) == RDiv(x * y, One)
FDiv(x, y) == RDiv(x * One, y)

\* floor of the square root of a natural number (Newton's iteration)
RECURSIVE SqrtIter(_, _)
SqrtIter(n, g) ==
    Let1((g + n \div g) \div 2, LAMBDA h : IF h >= g THEN g ELSE SqrtIter(n, h))

\* the iteration starts at or above the root
ISqrt(n) ==
    Let1(n, LAMBDA m :
        IF m = 0 THEN 0
        ELSE IF m < (4 * One) * (4 * One) THEN SqrtIter(m, 4 * One)
        ELSE SqrtIter(m, m))

\* np.sqrt of a non-negative fixed-point real
FSqrt(x) == ISqrt(x * One)

\* ------------------------------------------------------- 2x2 complex matrices
NaNMat == <<NaN, NaN, NaN, NaN, NaN, NaN, NaN, NaN>>
ZeroMat == <<0, 0, 0, 0, 0, 0, 0, 0>>
IdMat == <<One, 0, 0, 0, 0, 0, One, 0>>

\* a matrix that holds a nan holds nothing else: the only source of nan is
\* project_SU2 on the zero matrix, 0 * (inf + nan j), which is nan in all entries
IsNaNMat(A) == A[1] = NaN

\* the rows-times-columns sums of A @ B, before rounding: with
\* A = [[a, b], [c, d]] and B = [[e, f], [g, h]],
\* [[ae + bg, af + bh], [ce + dg, cf + dh]], real and imaginary parts
MatMulSums(A, B) ==
    << A[1] * B[1] - A[2] * B[2] + A[3] * B[5] - A[4] * B[6],
       A[1] * B[2] + A[2] * B[1] + A[3] * B[6] + A[4] * B[5],
       A[1] * B[3] - A[2] * B[4] + A[3] * B[7] - A[4] * B[8],
       A[1] * B[4] + A[2] * B[3] + A[3] * B[8] + A[4] * B[7],
       A[5] * B[1] - A[6] * B[2] + A[7] * B[5] - A[8] * B[6],
       A[5] * B[2] + A[6] * B[1] + A[7] * B[6] + A[8] * B[5],
       A[5] * B[3] - A[6] * B[4] + A[7] * B[7] - A[8] * B[8],
       A[5] * B[4] + A[6] * B[3] + A[7] * B[8] + A[8] * B[7] >>

\* every entry of the matrix of sums t, divided by One
Rounded(t) ==
    << RDiv(t[1], One), RDiv(t[2], One), RDiv(t[3], One), RDiv(t[4], One),
       RDiv(t[5], One), RDiv(t[6], One), RDiv(t[7], One), RDiv(t[8], One) >>

\* A @ B
MatMul(A, B) ==
    Let1(<<A, B>>, LAMBDA p :
        IF IsNaNMat(p[1]) \/ IsNaNMat(p[2]) THEN NaNMat
        ELSE Let1(MatMulSums(p[1], p[2]), LAMBDA t : Rounded(t)))

\* np.swapaxes(A.conj(), -1, -2)
Dagger(A) ==
    Let1(A, LAMBDA a :
        IF IsNaNMat(a) THEN NaNMat
        ELSE <<a[1], -a[2], a[5], -a[6], a[3], -a[4], a[7], -a[8]>>)

\* A + B and A - B
MatAdd(A, B) ==
    Let1(<<A, B>>, LAMBDA p :
        IF IsNaNMat(p[1]) \/ IsNaNMat(p[2]) THEN NaNMat
        ELSE << p[1][1] + p[2][1], p[1][2] + p[2][2], p[1][3] + p[2][3],
                p[1][4] + p[2][4], p[1][5] + p[2][5], p[1][6] + p[2][6],
                p[1][7] + p[2][7], p[1][8] + p[2][8] >>)

MatSub(A, B) ==
    Let1(<<A, B>>, LAMBDA p :
        IF IsNaNMat(p[1]) \/ IsNaNMat(p[2]) THEN NaNMat
        ELSE << p[1][1] - p[2][1], p[1][2] - p[2][2], p[1][3] - p[2][3],
                p[1][4] - p[2][4], p[1][5] - p[2][5], p[1][6] - p[2][6],
                p[1][7] - p[2][7], p[1][8] - p[2][8] >>)

\* c * A for a real c
MatScale(c, A) ==
    Let1(A, LAMBDA a :
        IF IsNaNMat(a) THEN NaNMat
        ELSE << FMul(c, a[1]), FMul(c, a[2]), FMul(c, a[3]), FMul(c, a[4]),
                FMul(c, a[5]), FMul(c, a[6]), FMul(c, a[7]), FMul(c, a[8]) >>)

\* np.real(np.trace(A))
ReTrace(A) == Let1(A, LAMBDA a : IF IsNaNMat(a) THEN NaN ELSE a[1] + a[7])

\* np.linalg.det(A), as <<Re, Im>>
Det(A) ==
    Let1(A, LAMBDA a :
        IF IsNaNMat(a) THEN <<NaN, NaN>>
        ELSE << RDiv(a[1] * a[7] - a[2] * a[8] - a[3] * a[5] + a[4] * a[6], One),
                RDiv(a[1] * a[8] + a[2] * a[7] - a[3] * a[6] - a[4] * a[5], One) >>)

\* ------------------------------------------------------------ the lattice
Coords == 0..(L - 1)
Sites == Coords \X Coords \X Coords
Dirs == {0, 1, 2}
Links == Sites \X Dirs

\* the site k steps from s along axis on a lattice with walls: no wrap-around
ShiftClamped(s, axis, k) ==
    [s EXCEPT ![axis + 1] =
        IF s[axis + 1] + k < 0 THEN 0
        ELSE IF s[axis + 1] + k > L - 1 THEN L - 1 ELSE s[axis + 1] + k]

\* the site k steps from s along axis, periodic
Shift(s, axis, k) == [s EXCEPT ![axis + 1] = (s[axis + 1] + k) % L]

\* U[..., mu, :, :]
Slice(U, mu) == [s \in Sites |-> U[s, mu]]

\* np.roll(A, sh, axis=axis) of an array over the sites
Roll(A, sh, axis) == [s \in Sites |-> A[Shift(s, axis, -sh)]]

\* get_cold_start: every link the identity
get_cold_start == [l \in Links |-> IdMat]

\* the body of the loop over nu of compute_staples_3d, at the site s:
\*   U_nu @ np.roll(U_mu, -1, nu) @ dag(np.roll(U_nu, -1, mu))
\*   + dag(np.roll(U_nu, 1, nu)) @ np.roll(U_mu, 1, nu)
\*       @ np.roll(np.roll(U_nu, 1, nu), -1, mu)
StapleTerm(U, mu, nu, s) ==
    MatAdd(MatMul(MatMul(Slice(U, nu)[s], Roll(Slice(U, mu), -1, nu)[s]),
                  Dagger(Roll(Slice(U, nu), -1, mu)[s])),
           MatMul(MatMul(Dagger(Roll(Slice(U, nu), 1, nu)[s]),
                         Roll(Slice(U, mu), 1, nu)[s]),
                  Roll(Roll(Slice(U, nu), 1, nu), -1, mu)[s]))

\* the loop "for nu in range(n_dirs): if nu == mu: continue", at the site s
RECURSIVE StapleLoop(_, _, _, _, _, _)
StapleLoop(U, mu, nu, n_dirs, s, staple_sum) ==
    IF nu = n_dirs THEN staple_sum
    ELSE IF nu = mu THEN StapleLoop(U, mu, nu + 1, n_dirs, s, staple_sum)
    ELSE StapleLoop(U, mu, nu + 1, n_dirs, s,
                    MatAdd(staple_sum, StapleTerm(U, mu, nu, s)))

compute_staples_3d(U, mu) ==
    Array([s \in Sites |-> StapleLoop(U, mu, 0, 3, s, ZeroMat)])

\* --------------------------------------------------------------- proposals
\* epsilon_met = 0.3
epsilon_met == (3 * One) \div 10

\* np.sign, as a fixed-point real
Sgn(x) == IF x > 0 THEN One ELSE IF x < 0 THEN -One ELSE 0

\* random_SU2_updates without the division by the norm
random_SU2_unnormalised(d, epsilon) ==
    Let1(<< FMul(Sgn(d[1]), ISqrt(One * One - epsilon * epsilon)),
            FMul(d[2], epsilon), FMul(d[3], epsilon), FMul(d[4], epsilon) >>,
         LAMBDA a : <<a[1], a[4], a[3], a[2], -a[3], a[2], a[1], -a[4]>>)

\* random_SU2_updates for one link, from that link's four uniform draws
\* d = <<d0, d1, d2, d3>> in [-0.5, 0.5); r / norm is nan when norm is 0
random_SU2_updates(d, epsilon) ==
    Let1(<< FMul(Sgn(d[1]), ISqrt(One * One - epsilon * epsilon)),
            FMul(d[2], epsilon), FMul(d[3], epsilon), FMul(d[4], epsilon) >>,
         LAMBDA r :
    Let1(ISqrt(r[1] * r[1] + r[2] * r[2] + r[3] * r[3] + r[4] * r[4]),
         LAMBDA norm :
        IF norm = 0 THEN NaNMat
        ELSE Let1(<< FDiv(r[1], norm), FDiv(r[2], norm),
                     FDiv(r[3], norm), FDiv(r[4], norm) >>,
                  LAMBDA a :
                     <<a[1], a[4], a[3], a[2], -a[3], a[2], a[1], -a[4]>>)))

\* ------------------------------------------------------------- Metropolis
\* dS of one link: -(beta/2) * Re Tr((new - old) @ Staples_dag)
ActionChange(b, new_link, old_link, staple) ==
    Let1(ReTrace(MatMul(MatSub(new_link, old_link), Dagger(staple))),
         LAMBDA tr : IF tr = NaN THEN NaN ELSE -RDiv(b * tr, 2))

\* an acceptance test that takes downhill moves only
AcceptsDownhill(k, dS) == dS # NaN /\ dS <= 0

\* r < np.exp(-dS) for the uniform draw r = exp(-k / One): exp is increasing,
\* so the comparison is k > dS; a comparison with nan is False
Accepts(k, dS) == dS # NaN /\ dS < k

\* staples read from the field as it was when the sweep began
StapleFieldOfSweepStart(U_start, U_now) == U_start

\* the array compute_staples_3d reads in the pass of direction mu: U itself,
\* which the earlier passes of this sweep have written in place
StapleField(U_start, U_now) == U_now

\* one pass of the loop over mu in update_metropolis
MetropolisPass(b, U_start, U, U_prime, unif, mu) ==
    Let1(compute_staples_3d(StapleField(U_start, U), mu), LAMBDA Staples :
    Let1(Array([s \in Sites |->
             ActionChange(b, U_prime[s, mu], U[s, mu], Staples[s])]),
         LAMBDA dS :
    Let1(Array([s \in Sites |-> Accepts(unif[s, mu], dS[s])]), LAMBDA accept :
        [U |-> Array([l \in Links |->
                   IF l[2] = mu /\ accept[l[1]] THEN U_prime[l] ELSE U[l]]),
         Staples |-> Staples, dS |-> dS, accept |-> accept])))

\* a proposal that replaces the link instead of multiplying it
ProposedLinkReplaced(R_l, U_l) == R_l

\* one link of U_prime = R @ U
ProposedLink(R_l, U_l) == MatMul(R_l, U_l)

\* update_metropolis(U) with the draws of random_SU2_updates (draws) and of
\* the acceptance test (unif); the result holds the new U and what each pass
\* computed on the way
update_metropolis(b, U, draws, unif) ==
    Let1(Array([l \in Links |-> random_SU2_updates(draws[l], epsilon_met)]),
         LAMBDA R :
    Let1(Array([l \in Links |-> ProposedLink(R[l], U[l])]), LAMBDA U_prime :
    Let1(MetropolisPass(b, U, U, U_prime, unif, 0), LAMBDA p0 :
    Let1(MetropolisPass(b, U, p0.U, U_prime, unif, 1), LAMBDA p1 :
    Let1(MetropolisPass(b, U, p1.U, U_prime, unif, 2), LAMBDA p2 :
        [U |-> p2.U, pre |-> U, R |-> R, U_prime |-> U_prime,
         unif |-> Array(unif),
         Staples |-> <<p0.Staples, p1.Staples, p2.Staples>>,
         dS |-> <<p0.dS, p1.dS, p2.dS>>,
         accept |-> <<p0.accept, p1.accept, p2.accept>>])))))

\* ----------------------------------------------------------------- smearing
\* np.sqrt of a complex number, principal branch, as <<Re, Im>>
CSqrt(c) ==
    Let1(c, LAMBDA z :
        IF z[1] = NaN THEN <<NaN, NaN>>
        ELSE IF z[2] = 0
        THEN IF z[1] >= 0 THEN <<FSqrt(z[1]), 0>> ELSE <<0, FSqrt(-z[1])>>
        ELSE Let1(ISqrt(z[1] * z[1] + z[2] * z[2]), LAMBDA mag :
                 << FSqrt((mag + z[1]) \div 2),
                    IF z[2] < 0 THEN -FSqrt((mag - z[1]) \div 2)
                    ELSE FSqrt((mag - z[1]) \div 2) >>))

\* 1.0 / c for a complex c; 1.0 / 0 is inf + nan j, which is not finite
CRecip(c) ==
    Let1(c, LAMBDA z :
    Let1(IF z[1] = NaN THEN 0 ELSE FMul(z[1], z[1]) + FMul(z[2], z[2]), LAMBDA n2 :
        IF n2 = 0 THEN <<NaN, NaN>> ELSE <<FDiv(z[1], n2), FDiv(-z[2], n2)>>))

\* m * scale for a complex scale; every entry times inf + nan j is nan
CScale(m, scale) ==
    Let1(<<m, scale>>, LAMBDA p :
        IF IsNaNMat(p[1]) \/ p[2][1] = NaN THEN NaNMat
        ELSE Rounded([k \in 1..8 |->
                 IF k % 2 = 1
                 THEN p[1][k] * p[2][1] - p[1][k + 1] * p[2][2]
                 ELSE p[1][k - 1] * p[2][2] + p[1][k] * p[2][1]]))

\* project_SU2(m)
project_SU2(m) == CScale(m, CRecip(CSqrt(Det(m))))

\* alpha = 0.5
alpha == One \div 2

\* staples read from U_sm, the array the round is writing
SmearSourceInPlace(U_curr, U_sm) == U_sm

\* the array the staples of a smearing round are read from: U_curr, the copy
\* of U_sm taken when the round began
SmearSource(U_curr, U_sm) == U_curr

\* one pass of the loop over mu in range(2) of spatial_ape_smear
SmearPass(U_curr, U_sm, a, mu) ==
    LET src == SmearSource(U_curr, U_sm)
        U_temp == [s \in Sites |->
                      MatAdd(MatScale(One - a, src[s, mu]),
                             MatScale(a \div 2,
                                      StapleLoop(src, mu, 0, 2, s, ZeroMat)))]
    IN  Array([l \in Links |->
                  IF l[2] = mu THEN project_SU2(U_temp[l[1]]) ELSE U_sm[l]])

\* a round that goes through all three directions
SmearRoundAllDirections(U_sm, a) ==
    Let1(SmearPass(U_sm, U_sm, a, 0), LAMBDA U_sm0 :
        Let1(SmearPass(U_sm, U_sm0, a, 1), LAMBDA U_sm1 :
            SmearPass(U_sm, U_sm1, a, 2)))

\* one round of the loop over n_steps: for mu in range(2)
SmearRound(U_sm, a) ==
    Let1(SmearPass(U_sm, U_sm, a, 0), LAMBDA U_sm0 : SmearPass(U_sm, U_sm0, a, 1))

\* the loop over n_steps, on the array U_sm
RECURSIVE SmearSteps(_, _, _)
SmearSteps(U_sm, a, n_steps) ==
    IF n_steps <= 0 THEN U_sm
    ELSE Let1(SmearRound(U_sm, a), LAMBDA nxt : SmearSteps(nxt, a, n_steps - 1))

\* an assignment in place of a copy: the same array object
NpAlias(heap, ref) == [heap |-> heap, ref |-> ref]

\* A.copy(): a new array object with the elements of the object ref
NpCopy(heap, ref) == [heap |-> Append(heap, heap[ref]), ref |-> Len(heap) + 1]

\* spatial_ape_smear(U_in, alpha, n_steps) on array objects: the rounds write
\* into U_sm = U_in.copy(), which is returned
spatial_ape_smear(heap, U_in, a, n_steps) ==
    Let1(NpCopy(heap, U_in), LAMBDA c :
    Let1(c.heap[c.ref], LAMBDA U_sm :
    Let1(SmearSteps(U_sm, a, n_steps), LAMBDA res :
        [heap |-> [c.heap EXCEPT ![c.ref] = res], ref |-> c.ref])))

\* -------------------------------------------------------------- observables
\* x + y and x / n on reals that may be nan
FAdd(x, y) ==
    Let1(<<x, y>>, LAMBDA p : IF p[1] = NaN \/ p[2] = NaN THEN NaN ELSE p[1] + p[2])
FDivN(x, n) == Let1(x, LAMBDA v : IF v = NaN \/ n = 0 THEN NaN ELSE RDiv(v, n))

\* the sum of f over the coordinates 0..k-1
RECURSIVE SumTo(_, _)
SumTo(f, k) == IF k = 0 THEN 0 ELSE FAdd(SumTo(f, k - 1), f[k - 1])

\* measure_glueball_3d(U): per position z, the sum over the (x, y) plane of
\* the real trace of the plaquette in directions 0, 1
measure_glueball_3d(U) ==
    LET U_0 == Slice(U, 0)
        U_1 == Slice(U, 1)
        U_1_s == Roll(U_1, -1, 0)
        U_0_s == Roll(U_0, -1, 1)
    IN  Let1(Array([s \in Sites |->
                 ReTrace(MatMul(MatMul(U_0[s], U_1_s[s]),
                                MatMul(Dagger(U_0_s[s]), Dagger(U_1[s]))))]),
             LAMBDA trP :
                 Array([z \in Coords |->
                     SumTo([x \in Coords |->
                         SumTo([y \in Coords |-> trP[<<x, y, z>>]], L)], L)]))

\* np.real(np.mean(np.trace(Loop))) over the sites
MeanTrace(Loop) ==
    FDivN(SumTo([x \in Coords |->
              SumTo([y \in Coords |->
                  SumTo([z \in Coords |-> ReTrace(Loop[<<x, y, z>>])], L)], L)], L),
          L * L * L)

\* the loop over t of measure_wilson_loops_3d, for one r: row r of W_RT
RECURSIVE WilsonTLoop(_, _, _, _, _, _)
WilsonTLoop(U, spatial_line, r, t, T_hi, U_T_line) ==
    IF t > T_hi THEN <<>>
    ELSE LET V_0 == U_T_line
             V_R == Roll(V_0, -r, 0)
             top == Roll(spatial_line, -t, 2)
             Loop == [s \in Sites |->
                         MatMul(MatMul(MatMul(spatial_line[s], V_R[s]),
                                       Dagger(top[s])),
                                Dagger(V_0[s]))]
             U_time_shift == Roll(Slice(U, 2), -t, 2)
         IN  Let1(Array([s \in Sites |-> MatMul(U_T_line[s], U_time_shift[s])]),
                  LAMBDA U_T_next :
                      <<MeanTrace(Loop)>>
                          \o WilsonTLoop(U, spatial_line, r, t + 1, T_hi, U_T_next))

\* the loop over r of measure_wilson_loops_3d: the rows of W_RT
RECURSIVE WilsonRLoop(_, _, _, _, _)
WilsonRLoop(U, r, R_hi, T_hi, U_R_line) ==
    IF r > R_hi THEN <<>>
    ELSE LET spatial_line == U_R_line
             U_shift == Roll(Slice(U, 0), -r, 0)
         IN  Let1(<< Array([s \in Sites |-> MatMul(U_R_line[s], U_shift[s])]),
                     Array(Slice(U, 2)) >>,
                  LAMBDA q :
                      <<WilsonTLoop(U, spatial_line, r, 1, T_hi, q[2])>>
                          \o WilsonRLoop(U, r + 1, R_hi, T_hi, q[1]))

\* measure_wilson_loops_3d(U, R_max, T_max): W_RT[r][t] for r in 1..R_max,
\* t in 1..T_max (the source's W_RT[r-1, t-1])
measure_wilson_loops_3d(U, R_hi, T_hi) ==
    Let1(Array(Slice(U, 0)), LAMBDA U_R_line :
        WilsonRLoop(U, 1, R_hi, T_hi, U_R_line))

\* -------------------------------------------------------------- the run
VARIABLES
    pc,           \* phase of the run
    beta,         \* inverse coupling of the run
    U,            \* the production gauge field, Links -> matrix
    i_therm,      \* loop variable of the thermalisation loop
    i_meas,       \* loop variable i of the measurement loop
    skip,         \* loop variable of the skip loop
    ops_history,  \* [measurement][operator][z]
    wilson_avg,   \* [r][t]
    files,        \* the bundles np.savez has written
    sweeps,       \* number of calls of update_metropolis so far
    meas_sweeps,  \* the value of sweeps at each measurement taken
    sweep_log,    \* what the last call of update_metropolis computed
    meas_log,     \* what the last measurement computed
    staple_log,   \* what the last staple comparison computed
    phase_log,    \* the phases entered so far, with the value of sweeps at entry
    an,           \* the state of the analysis script
    wilson_log,   \* the result of measure_wilson_loops_3d at each measurement
    wolff         \* the state of one call of wolff_step

vars == <<pc, beta, U, i_therm, i_meas, skip, ops_history, wilson_avg, files,
          sweeps, meas_sweeps, sweep_log, meas_log, staple_log, phase_log, an, wilson_log,
          wolff>>

\* smear_levels = [10, 20, 30], scaled down
smear_levels == <<1, 2, 3>>
n_ops == Len(smear_levels)

\* every call of spatial_ape_smear given the level itself
SmearArgFromScratch(k) == smear_levels[k]

\* n_steps of the k-th call of spatial_ape_smear in a measurement
\* (k = 1: smear_levels[0]; later: the difference to the previous level)
SmearArg(k) ==
    IF k = 1 THEN smear_levels[1] ELSE smear_levels[k] - smear_levels[k - 1]

\* a loop that runs once more
InRangeInclusive(i, n) == i <= n

\* a loop that stops one iteration short
InRangeOneShort(i, n) == i < n - 1

\* the condition of "for i in range(n)"
InRange(i, n) == i < n

\* one measurement (the body of the measurement loop after the skip sweeps),
\* on array objects: object 1 is the production field U
MeasureBody(U_prod) ==
    Let1(NpCopy(<<U_prod>>, 1), LAMBDA c1 :
    Let1(spatial_ape_smear(c1.heap, c1.ref, alpha, SmearArg(1)), LAMBDA s1 :
    Let1(spatial_ape_smear(s1.heap, s1.ref, alpha, SmearArg(2)), LAMBDA s2 :
    Let1(spatial_ape_smear(s2.heap, s2.ref, alpha, SmearArg(3)), LAMBDA s3 :
    Let1(spatial_ape_smear(s3.heap, 1, alpha, wilson_smear_steps), LAMBDA sp :
    Let1(NpCopy(sp.heap, 1), LAMBDA hy :
    Let1([hy.heap EXCEPT ![hy.ref] =
             Array([l \in Links |->
                 IF l[2] \in {0, 1} THEN sp.heap[sp.ref][l] ELSE hy.heap[hy.ref][l]])],
         LAMBDA h1 :
    Let1(<<s1.heap[s1.ref], s2.heap[s2.ref], s3.heap[s3.ref], h1[hy.ref]>>,
         LAMBDA f :
        [U |-> h1[1],
         smeared |-> <<f[1], f[2], f[3]>>,
         ops |-> <<measure_glueball_3d(f[1]), measure_glueball_3d(f[2]),
                   measure_glueball_3d(f[3])>>,
         space_smeared |-> sp.heap[sp.ref],
         hybrid |-> f[4],
         W |-> measure_wilson_loops_3d(f[4], R_max, T_max)]))))))))

\* the draws of one sweep: the probed link draws d, every other link the
\* draw <<1/4, 0, 0, 0>> (whose proposal is the identity); every link's
\* acceptance draw is r = exp(-k)
ProbeLink == <<<<0, 0, 0>>, 0>>
IdDraw == <<One \div 4, 0, 0, 0>>
ProbeDraws == { <<-(One \div 2), 0, 0, 0>>, <<0, -(One \div 2), 0, 0>> }
AcceptDraws == {1, 2^20}
BetaValues == {0, 6}
SweepDraws(d) == [l \in Links |-> IF l = ProbeLink THEN d ELSE IdDraw]
SweepUnif(k) == [l \in Links |-> k]

NoLog == [tag |-> "none"]

Init ==
    /\ pc = "COLD_START"
    /\ beta \in BetaValues
    /\ U = get_cold_start
    /\ i_therm = 0
    /\ i_meas = 0
    /\ skip = 0
    /\ ops_history = <<>>
    /\ wilson_avg = <<>>
    /\ files = <<>>
    /\ sweeps = 0
    /\ meas_sweeps = <<>>
    /\ sweep_log = NoLog
    /\ meas_log = NoLog
    /\ staple_log = NoLog
    /\ an = NoLog
    /\ wolff = NoLog
    /\ wilson_log = <<>>
    /\ phase_log = <<[phase |-> "COLD_START", sweeps |-> 0]>>

\* U = update_metropolis(U)
Sweep ==
    \E d \in ProbeDraws, k \in AcceptDraws :
        \E res \in {update_metropolis(beta, U, SweepDraws(d), SweepUnif(k))} :
            /\ U' = res.U
            /\ sweep_log' = [tag |-> "sweep", pre |-> res.pre, R |-> res.R,
                             U_prime |-> res.U_prime, unif |-> res.unif,
                             Staples |-> res.Staples, dS |-> res.dS,
                             accept |-> res.accept]
            /\ sweeps' = sweeps + 1
            /\ meas_log' = NoLog

\* the thermalisation loop is entered
StartThermalizing ==
    /\ pc = "COLD_START"
    /\ pc' = "THERMALIZING"
    /\ i_therm' = 0
    /\ phase_log' = Append(phase_log, [phase |-> "THERMALIZING", sweeps |-> sweeps])
    /\ UNCHANGED <<wolff, an, wilson_log, beta, U, i_meas, skip, ops_history, wilson_avg, files,
                   sweeps, meas_sweeps, sweep_log, meas_log, staple_log>>

\* one iteration of "for i in range(n_therm)"
ThermSweep ==
    /\ pc = "THERMALIZING"
    /\ InRange(i_therm, n_therm)
    /\ Sweep
    /\ i_therm' = i_therm + 1
    /\ UNCHANGED <<wolff, an, wilson_log, pc, beta, i_meas, skip, ops_history, wilson_avg, files,
                   meas_sweeps, staple_log, phase_log>>

\* the measurement phase entered without waiting for the thermalisation loop
StartMeasuringEarly ==
    /\ pc = "THERMALIZING"
    /\ pc' = "MEASURING"
    /\ ops_history' = [i \in 1..n_meas |-> [k \in 1..n_ops |-> [z \in Coords |-> 0]]]
    /\ wilson_avg' = [r \in 1..R_max |-> [t \in 1..T_max |-> 0]]
    /\ i_meas' = 0
    /\ skip' = 0
    /\ phase_log' = Append(phase_log, [phase |-> "MEASURING", sweeps |-> sweeps])
    /\ UNCHANGED <<wolff, an, wilson_log, beta, U, i_therm, files, sweeps, meas_sweeps, sweep_log,
                   meas_log, staple_log>>

\* the thermalisation loop ends; ops_history and wilson_avg are created
StartMeasuring ==
    /\ pc = "THERMALIZING"
    /\ ~InRange(i_therm, n_therm)
    /\ pc' = "MEASURING"
    /\ ops_history' = [i \in 1..n_meas |-> [k \in 1..n_ops |-> [z \in Coords |-> 0]]]
    /\ wilson_avg' = [r \in 1..R_max |-> [t \in 1..T_max |-> 0]]
    /\ i_meas' = 0
    /\ skip' = 0
    /\ phase_log' = Append(phase_log, [phase |-> "MEASURING", sweeps |-> sweeps])
    /\ UNCHANGED <<wolff, an, wilson_log, beta, U, i_therm, files, sweeps, meas_sweeps, sweep_log,
                   meas_log, staple_log>>

\* one iteration of "for _ in range(n_skip)"
SkipSweep ==
    /\ pc = "MEASURING"
    /\ InRange(i_meas, n_meas)
    /\ InRange(skip, n_skip)
    /\ Sweep
    /\ skip' = skip + 1
    /\ UNCHANGED <<wolff, an, wilson_log, pc, beta, i_therm, i_meas, ops_history, wilson_avg, files,
                   meas_sweeps, staple_log, phase_log>>

\* the measurement of iteration i_meas, after its skip sweeps
Measure ==
    /\ pc = "MEASURING"
    /\ InRange(i_meas, n_meas)
    /\ ~InRange(skip, n_skip)
    /\ \E m \in {MeasureBody(U)} :
           /\ U' = m.U
           /\ ops_history' = [ops_history EXCEPT ![i_meas + 1] = m.ops]
           /\ wilson_avg' = [r \in 1..R_max |-> [t \in 1..T_max |->
                                FAdd(wilson_avg[r][t], m.W[r][t])]]
           /\ wilson_log' = Append(wilson_log, m.W)
           /\ meas_log' = [tag |-> "meas", U_before |-> U,
                           smeared |-> m.smeared, ops |-> m.ops,
                           space_smeared |-> m.space_smeared,
                           hybrid |-> m.hybrid]
    /\ i_meas' = i_meas + 1
    /\ skip' = 0
    /\ meas_sweeps' = Append(meas_sweeps, sweeps)
    /\ sweep_log' = NoLog
    /\ UNCHANGED <<wolff, an, pc, beta, i_therm, files, sweeps, staple_log, phase_log>>

\* the accumulator divided by the number of measurements twice
EnsembleAverageTwice(acc, n) == FDivN(FDivN(acc, n), n)

\* one entry of wilson_avg /= n_meas
EnsembleAverage(acc, n) == FDivN(acc, n)

\* the bundle written after the first measurement
FinishPartial ==
    /\ pc = "MEASURING"
    /\ i_meas >= 1
    /\ \E avg \in {[r \in 1..R_max |-> [t \in 1..T_max |->
                      FDivN(wilson_avg[r][t], n_meas)]]} :
           /\ wilson_avg' = avg
           /\ files' = Append(files, [ops_history |-> ops_history,
                                      wilson_avg |-> avg,
                                      beta |-> beta, L |-> L])
    /\ pc' = "DONE"
    /\ phase_log' = Append(phase_log, [phase |-> "DONE", sweeps |-> sweeps])
    /\ UNCHANGED <<wolff, an, wilson_log, beta, U, i_therm, i_meas, skip, ops_history,
                   sweeps, meas_sweeps, sweep_log, meas_log, staple_log>>

\* wilson_avg /= n_meas and np.savez
Finish ==
    /\ pc = "MEASURING"
    /\ ~InRange(i_meas, n_meas)
    /\ \E avg \in {[r \in 1..R_max |-> [t \in 1..T_max |->
                      EnsembleAverage(wilson_avg[r][t], n_meas)]]} :
           /\ wilson_avg' = avg
           /\ files' = Append(files, [ops_history |-> ops_history,
                                      wilson_avg |-> avg,
                                      beta |-> beta, L |-> L])
    /\ pc' = "DONE"
    /\ phase_log' = Append(phase_log, [phase |-> "DONE", sweeps |-> sweeps])
    /\ UNCHANGED <<wolff, an, wilson_log, beta, U, i_therm, i_meas, skip, ops_history, sweeps,
                   meas_sweeps, sweep_log, meas_log, staple_log>>

Next ==
    \/ StartThermalizing
    \/ ThermSweep
    \/ StartMeasuring
    \/ SkipSweep
    \/ Measure
    \/ Finish

Spec == Init /\ [][Next]_vars

\* the run of a script that is not aborted: the interpreter goes on to the
\* next statement as long as there is one
SpecLive == Init /\ [][Next]_vars /\ WF_vars(Next)

\* ------------------------------------------- staples of translated fields
\* link values random_SU2_updates produces
StapleLinkValues ==
    [d \in {<<0, -(One \div 2), 0, 0>>, <<0, 0, -(One \div 2), 0>>} |->
        random_SU2_updates(d, epsilon_met)]
StapleProbeLinks ==
    { <<<<0, 0, 0>>, 0>>, <<<<0, 0, 0>>, 1>>, <<<<0, 0, 0>>, 2>>,
      <<<<L - 1, 0, 1>>, 0>>, <<<<L - 1, 0, 1>>, 1>>, <<<<L - 1, 0, 1>>, 2>>,
      <<<<1, L - 1, 0>>, 0>>, <<<<1, L - 1, 0>>, 2>> }
StapleFarLink == <<<<L - 1, L - 1, L - 1>>, 1>>

\* fields with two links away from the identity
StapleFields ==
    { [l \in Links |->
          IF l = a THEN StapleLinkValues[<<0, -(One \div 2), 0, 0>>]
          ELSE IF l = StapleFarLink
               THEN StapleLinkValues[<<0, 0, -(One \div 2), 0>>]
               ELSE IdMat] : a \in StapleProbeLinks }

ShiftVectors ==
    { <<1, 0, 0>>, <<0, 1, 0>>, <<0, 0, 1>>, <<1, 1, 1>>, <<L - 1, 0, 1>> }

\* the site s + d on the periodic lattice
TranslateSite(s, d) ==
    <<(s[1] + d[1]) % L, (s[2] + d[2]) % L, (s[3] + d[3]) % L>>

\* the field U moved by d: its link at s + d is the link of U at s
TranslatedField(V, d) ==
    [l \in Links |->
        V[<< <<(l[1][1] - d[1] + L) % L, (l[1][2] - d[2] + L) % L,
               (l[1][3] - d[3] + L) % L>>, l[2] >>]]

InitStaple ==
    /\ pc = "STAPLES"
    /\ beta = 6
    /\ U \in StapleFields
    /\ i_therm = 0
    /\ i_meas = 0
    /\ skip = 0
    /\ ops_history = <<>>
    /\ wilson_avg = <<>>
    /\ files = <<>>
    /\ sweeps = 0
    /\ meas_sweeps = <<>>
    /\ sweep_log = NoLog
    /\ meas_log = NoLog
    /\ staple_log = NoLog
    /\ an = NoLog
    /\ wolff = NoLog
    /\ wilson_log = <<>>
    /\ phase_log = <<>>

\* compute_staples_3d on U and on U moved by d
StapleCompare ==
    /\ pc = "STAPLES"
    /\ staple_log = NoLog
    /\ \E mu \in Dirs, d \in ShiftVectors :
           \E moved \in {TranslatedField(U, d)} :
               staple_log' = [tag |-> "staples", mu |-> mu, d |-> d,
                              of_U |-> compute_staples_3d(U, mu),
                              of_moved |-> compute_staples_3d(moved, mu)]
    /\ UNCHANGED <<wolff, an, wilson_log, pc, beta, U, i_therm, i_meas, skip, ops_history, wilson_avg,
                   files, sweeps, meas_sweeps, sweep_log, meas_log, phase_log>>

NextStaple == StapleCompare

SpecStaple == InitStaple /\ [][NextStaple]_vars

\* --------------------------------------- one pass of a sweep, site by site
\* the staple of the decision at s computed from the field as it is then
DecisionStapleFresh(Staples, U_now, mu, s) ==
    StapleLoop(U_now, mu, 0, 3, s, ZeroMat)

\* the staple the decision at s reads: the entry of the array Staples, which
\* line 54 computed before any write of the pass
DecisionStaple(Staples, U_now, mu, s) == Staples[s]

\* the sites whose decisions are taken in every order; the others follow in
\* index order
OrderSites == {<<0, 0, 0>>, <<0, 1, 0>>, <<1, 0, 0>>}
SiteIndex(s) == (s[1] * L + s[2]) * L + s[3]
NextInOrder(S) == CHOOSE s \in S : \A t \in S : SiteIndex(s) <= SiteIndex(t)

OrderDraws == { <<One \div 4, -(One \div 2), 0, 0>>, <<One \div 4, 0, 0, 0>> }
OrderThresholds == {One \div 5, 2^20}

PassDraws(dA, dB, dC) ==
    [l \in Links |->
        IF l[1] = <<0, 0, 0>> THEN dA
        ELSE IF l[1] = <<0, 1, 0>> THEN dB
        ELSE IF l[1] = <<1, 0, 0>> THEN dC ELSE IdDraw]
PassUnif(kA, kB, kC) ==
    [l \in Links |->
        IF l[1] = <<0, 0, 0>> THEN kA
        ELSE IF l[1] = <<0, 1, 0>> THEN kB
        ELSE IF l[1] = <<1, 0, 0>> THEN kC ELSE 2^20]

\* the pass of direction mu is about to decide its sites: R, U_prime and
\* Staples are computed, vector is what the pass as a whole leaves in U
InitOrder ==
    /\ pc = "PASS"
    /\ beta = 6
    /\ U = get_cold_start
    /\ i_therm = 0
    /\ i_meas = 0
    /\ skip = 0
    /\ ops_history = <<>>
    /\ wilson_avg = <<>>
    /\ files = <<>>
    /\ sweeps = 0
    /\ meas_sweeps = <<>>
    /\ meas_log = NoLog
    /\ staple_log = NoLog
    /\ an = NoLog
    /\ wolff = NoLog
    /\ wilson_log = <<>>
    /\ phase_log = <<>>
    /\ \E mu \in {0, 1}, dA \in OrderDraws, dB \in OrderDraws,
          dC \in OrderDraws, kA \in OrderThresholds, kB \in OrderThresholds,
          kC \in OrderThresholds :
         \E R \in {Array([l \in Links |->
                      random_SU2_updates(PassDraws(dA, dB, dC)[l],
                                         epsilon_met)])} :
         \E U_prime \in {Array([l \in Links |->
                            ProposedLink(R[l], get_cold_start[l])])} :
         \E unif \in {Array(PassUnif(kA, kB, kC))} :
         \E p \in {MetropolisPass(6, get_cold_start, get_cold_start,
                                  U_prime, unif, mu)} :
             sweep_log = [tag |-> "pass", mu |-> mu, U_prime |-> U_prime,
                          unif |-> unif, Staples |-> p.Staples,
                          decided |-> {}, vector |-> p.U]

\* lines 56-62 for the one site s: dS, the acceptance test and the write
DecideAt(s) ==
    \E acc \in {Accepts(sweep_log.unif[s, sweep_log.mu],
                        ActionChange(beta, sweep_log.U_prime[s, sweep_log.mu],
                                     U[s, sweep_log.mu],
                                     DecisionStaple(sweep_log.Staples, U,
                                                    sweep_log.mu, s)))} :
        /\ U' = [U EXCEPT ![<<s, sweep_log.mu>>] =
                    IF acc THEN sweep_log.U_prime[s, sweep_log.mu] ELSE @]
        /\ sweep_log' = [sweep_log EXCEPT !.decided = @ \cup {s}]
        /\ UNCHANGED <<wolff, an, wilson_log, pc, beta, i_therm, i_meas, skip, ops_history,
                       wilson_avg, files, sweeps, meas_sweeps, meas_log,
                       staple_log, phase_log>>

\* one of the sites decided in every order
DecideSite ==
    /\ pc = "PASS"
    /\ \E s \in OrderSites \ sweep_log.decided : DecideAt(s)

\* the remaining sites, once those are through
DecideNext ==
    /\ pc = "PASS"
    /\ OrderSites \subseteq sweep_log.decided
    /\ sweep_log.decided # Sites
    /\ DecideAt(NextInOrder(Sites \ sweep_log.decided))

NextOrder == DecideSite \/ DecideNext

SpecOrder == InitOrder /\ [][NextOrder]_vars

\* ------------------------------------------- one measurement on any field
\* fields with two links away from the identity, of any direction
SmearFields ==
    { [l \in Links |->
          IF l = a THEN StapleLinkValues[<<0, -(One \div 2), 0, 0>>]
          ELSE IF l = b THEN StapleLinkValues[d]
               ELSE IdMat] :
        a \in StapleProbeLinks, b \in StapleProbeLinks,
        d \in DOMAIN StapleLinkValues }

\* the measurement loop at its first measurement, the skip sweeps made
InitSmear ==
    /\ pc = "MEASURING"
    /\ beta = 6
    /\ U \in SmearFields
    /\ i_therm = n_therm
    /\ i_meas = 0
    /\ skip = n_skip
    /\ ops_history = [i \in 1..n_meas |-> [k \in 1..n_ops |-> [z \in Coords |-> 0]]]
    /\ wilson_avg = [r \in 1..R_max |-> [t \in 1..T_max |-> 0]]
    /\ files = <<>>
    /\ sweeps = n_therm + n_skip
    /\ meas_sweeps = <<>>
    /\ sweep_log = NoLog
    /\ meas_log = NoLog
    /\ staple_log = NoLog
    /\ an = NoLog
    /\ wolff = NoLog
    /\ wilson_log = <<>>
    /\ phase_log = <<>>

NextSmear == Measure

SpecSmear == InitSmear /\ [][NextSmear]_vars

\* ------------------------------------------------------ the analysis script
\* the simulation's variables while the analysis script runs
RunIdle ==
    /\ pc = "ANALYSIS"
    /\ beta = 6
    /\ U = get_cold_start
    /\ i_therm = 0
    /\ i_meas = 0
    /\ skip = 0
    /\ ops_history = <<>>
    /\ wilson_avg = <<>>
    /\ files = <<>>
    /\ sweeps = 0
    /\ meas_sweeps = <<>>
    /\ sweep_log = NoLog
    /\ meas_log = NoLog
    /\ staple_log = NoLog
    /\ phase_log = <<>>
    /\ wilson_log = <<>>

RunUnchanged ==
    UNCHANGED <<pc, beta, U, i_therm, i_meas, skip, ops_history, wilson_avg,
                files, sweeps, meas_sweeps, sweep_log, meas_log, staple_log,
                phase_log, wilson_log>>

\* arrays of the script: ops is ops_history[m][k][z] and wil is wilson_avg[r][t]
\* as tuples (index + 1); a correlator C is C_matrix[t][i][j], t from 0 and
\* i, j from 1

\* vevs = np.mean(ops_history, axis=0); vev_per_op = np.mean(vevs, axis=1)
vev_per_op(ops) ==
    [k \in 1..Len(ops[1]) |->
        FDivN(SumTo([z \in 0..(Len(ops[1][1]) - 1) |->
                        FDivN(SumTo([m \in 0..(Len(ops) - 1) |->
                                        ops[m + 1][k][z + 1]], Len(ops)),
                              Len(ops))],
                    Len(ops[1][1])),
              Len(ops[1][1]))]

\* ops_sub = ops_history - vev_per_op[None, :, None]
ops_sub(ops) ==
    Let1(Array(vev_per_op(ops)), LAMBDA vev :
        Array([m \in 1..Len(ops) |->
                 [k \in 1..Len(ops[1]) |->
                     [z \in 1..Len(ops[1][1]) |-> ops[m][k][z] - vev[k]]]]))

\* np.roll(a, -t, axis=1)[z] with the wrap-around left out
RollOpen(Nt, z, t) == IF z + t < Nt THEN z + t ELSE z

\* np.roll(a, -t, axis=1)[z] = a[(z + t) mod Nt]
RollIndex(Nt, z, t) == (z + t) % Nt

\* np.mean(ops_sub[:, i, :] * np.roll(ops_sub[:, j, :], -t, axis=1))
CorrEntry(sub, t, i, j) ==
    Let1(<<Len(sub), Len(sub[1][1])>>, LAMBDA sh :
        FDivN(SumTo([x \in 0..(sh[1] * sh[2] - 1) |->
                        FMul(sub[(x \div sh[2]) + 1][i][(x % sh[2]) + 1],
                             sub[(x \div sh[2]) + 1][j]
                                [RollIndex(sh[2], x % sh[2], t) + 1])],
                    sh[1] * sh[2]),
              sh[1] * sh[2]))

\* the loop filling C_matrix
RawCorrelator(ops) ==
    Let1(ops_sub(ops), LAMBDA sub :
        Array([t \in 0..(Len(ops[1][1]) - 1) |->
                 [i \in 1..Len(ops[1]) |->
                     [j \in 1..Len(ops[1]) |-> CorrEntry(sub, t, i, j)]]]))

\* 0.5 * (A + B), entry by entry
MatHalfSum(A, B) ==
    [i \in DOMAIN A |-> [j \in DOMAIN A[i] |-> RDiv(A[i][j] + B[i][j], 2)]]

\* np.transpose(C, (0, 2, 1))[t]
Transposed(A) == [i \in DOMAIN A |-> [j \in DOMAIN A |-> A[j][i]]]

\* the symmetrization left out
SymmetrizeSkipped(C) == C

\* C_matrix = 0.5 * (C_matrix + np.transpose(C_matrix, (0, 2, 1)))
Symmetrize(C) ==
    Array([t \in DOMAIN C |-> MatHalfSum(C[t], Transposed(C[t]))])

\* the partner of t one step short of the reflection
FoldPartnerShort(Nt, t) == Nt - t - 1

\* C_matrix[Nt - t]
FoldPartner(Nt, t) == Nt - t

\* for t in range(1, Nt//2 + 1): C_matrix[t] = 0.5 * (C_matrix[t] + C_matrix[Nt-t])
\* (in place: a later t reads what an earlier t has written)
RECURSIVE FoldLoop(_, _, _)
FoldLoop(C, Nt, t) ==
    IF t > Nt \div 2 THEN C
    ELSE Let1(Array([C EXCEPT
                        ![t] = MatHalfSum(C[t], C[FoldPartner(Nt, t)])]),
              LAMBDA D : FoldLoop(D, Nt, t + 1))

Fold(C) == Let1(C, LAMBDA D : FoldLoop(D, Cardinality(DOMAIN D), 1))

\* the correlator the script goes on with
C_matrix(ops) == Fold(Symmetrize(RawCorrelator(ops)))

\* C(t) = C(N - t) for 0 < t < N
Reflective(C) ==
    \A t \in DOMAIN C : t > 0 => C[t] = C[Cardinality(DOMAIN C) - t]

\* ---------------------------------------------- folding a correlator twice
FoldValues == {0, 2 * One, 6 * One}
FoldSequences ==
    UNION {[0..(Nt - 1) -> {<<<<v>>>> : v \in FoldValues}] : Nt \in {3, 4}}

InitFold ==
    /\ RunIdle
    /\ wolff = NoLog
    /\ \E C \in FoldSequences :
           an = [tag |-> "fold", input |-> C, C |-> C, folds |-> 0, once |-> C]

\* the folding loop applied to the sequence at hand
FoldAgain ==
    /\ an.tag = "fold"
    /\ an.folds < 2
    /\ \E D \in {Fold(an.C)} :
           an' = [an EXCEPT !.C = D, !.folds = @ + 1,
                            !.once = IF an.folds = 0 THEN D ELSE @]
    /\ RunUnchanged
    /\ UNCHANGED wolff

NextFold == FoldAgain

SpecFold == InitFold /\ [][NextFold]_vars

\* --------------------------------------------------- the script, step by step
\* a value not computed yet
None == <<>>

\* the script about to load the bundle written by np.savez
AnStart(bundle) ==
    [tag |-> "analysis", pc |-> "LOAD", bundle |-> bundle,
     ops |-> None, wil |-> None, L |-> None,
     raw |-> None, sym |-> None, C |-> None,
     eig_vals |-> None, lambda_0 |-> None,
     fit_y |-> None, fit |-> None, popt |-> None, mass_est |-> None,
     V_R |-> None, mask |-> None, popt_s |-> None, sigma_a2 |-> None,
     linear_fits |-> 0, out |-> <<>>, error |-> None]

\* data = np.load(filename); ops_history, wilson_avg, L, beta read from it;
\* n_meas, n_ops, Nt = ops_history.shape
Load ==
    /\ an.tag = "analysis"
    /\ an.pc = "LOAD"
    /\ an' = [an EXCEPT !.pc = "CORRELATOR",
                        !.ops = an.bundle.ops_history,
                        !.wil = an.bundle.wilson_avg,
                        !.L = an.bundle.L]
    /\ RunUnchanged
    /\ UNCHANGED wolff

\* vev subtraction, the loop filling C_matrix, symmetrization and folding
BuildCorrelator ==
    /\ an.tag = "analysis"
    /\ an.pc = "CORRELATOR"
    /\ \E raw \in {RawCorrelator(an.ops)} :
       \E sym \in {Symmetrize(raw)} :
       \E C \in {Fold(sym)} :
           an' = [an EXCEPT !.pc = "EIGEN", !.raw = raw, !.sym = sym, !.C = C]
    /\ RunUnchanged
    /\ UNCHANGED wolff

\* ------------------------------------- correlators of operator time series
\* operator time series: one measurement of two operators on four positions,
\* and two measurements of two operators on three positions
SeriesValues == {-One, 0, 2 * One}
OperatorSeries ==
    [1..1 -> [1..2 -> [1..4 -> SeriesValues]]]
        \cup [1..2 -> [1..2 -> [1..3 -> {0, One}]]]

InitCorr ==
    /\ RunIdle
    /\ wolff = NoLog
    /\ \E ops \in OperatorSeries :
           an = AnStart([ops_history |-> ops, wilson_avg |-> <<>>,
                         L |-> Len(ops[1][1]), beta |-> 6])

NextCorr == Load \/ BuildCorrelator

SpecCorr == InitCorr /\ [][NextCorr]_vars

\* ------------------------------------------------ eigenvalues and mass fit
\* la.eigh(A, B, eigvals_only=True) for one or two operators: the roots of
\* det(A - lambda B) = 0 in ascending order, or a LinAlgError when the
\* Cholesky factorisation of B meets a pivot that is not positive
EighOne(A, B) ==
    IF B[1][1] > 0 THEN [ok |-> TRUE, evals |-> <<FDiv(A[1][1], B[1][1])>>]
    ELSE [ok |-> FALSE, evals |-> <<>>]

EighTwo(A, B) ==
    Let1(<<FMul(B[1][1], B[2][2]) - FMul(B[1][2], B[1][2]),
           FMul(A[1][1], B[2][2]) + FMul(A[2][2], B[1][1])
               - 2 * FMul(A[1][2], B[1][2]),
           FMul(A[1][1], A[2][2]) - FMul(A[1][2], A[1][2])>>,
         LAMBDA q :
        IF B[1][1] > 0 /\ q[1] > 0
        THEN Let1(FMul(q[2], q[2]) - 4 * FMul(q[1], q[3]), LAMBDA disc :
                 Let1(FSqrt(IF disc > 0 THEN disc ELSE 0), LAMBDA root :
                     [ok |-> TRUE,
                      evals |-> <<FDiv(q[2] - root, 2 * q[1]),
                                  FDiv(q[2] + root, 2 * q[1])>>]))
        ELSE [ok |-> FALSE, evals |-> <<>>])

eigh(A, B) == IF Len(A) = 1 THEN EighOne(A, B) ELSE EighTwo(A, B)

\* np.sort(evals)[::-1]
SortedDescending(evals) ==
    [k \in 1..Len(evals) |-> evals[Len(evals) + 1 - k]]

\* the loop over t in range(Nt//2), with t0_gevp = 0: a failed solve leaves
\* nan in the row of t
EigenRows(C) ==
    Array([t \in 0..((Cardinality(DOMAIN C) \div 2) - 1) |->
             Let1(eigh(C[t], C[0]), LAMBDA res :
                 IF res.ok THEN SortedDescending(res.evals)
                 ELSE [k \in 1..Len(C[0]) |-> NaN])])

SolveEigen ==
    /\ an.tag = "analysis"
    /\ an.pc = "EIGEN"
    /\ \E rows \in {EigenRows(an.C)} :
           an' = [an EXCEPT !.pc = "MASS_FIT", !.eig_vals = rows,
                            !.lambda_0 = [t \in DOMAIN rows |-> rows[t][1]]]
    /\ RunUnchanged
    /\ UNCHANGED wolff

\* t_start = 1, t_end = 5
t_start == 1
t_end == 5

\* the positions of y_data[t_start:t_end]
FitRange(y) ==
    {t \in DOMAIN y : t >= t_start /\ t < t_end}

\* y_data[t_start:t_end]
FitData(y) == [t \in FitRange(y) |-> y[t]]

\* curve_fit cannot return: y_data[1] does not exist (IndexError), the data
\* hold a nan (check_finite raises ValueError), or p0[0] = y_data[1] lies
\* below its lower bound 0 (ValueError: x0 is infeasible)
FitRaises(y) ==
    \/ 1 \notin DOMAIN y
    \/ \E t \in FitRange(y) : y[t] = NaN
    \/ y[1] < 0

\* the masses a converged fit can return: inside the bounds (0, 5.0]
MassValues == {One \div 8, One, 5 * One}

\* what curve_fit can do: raise, or return popt = (A, m, C); the optimizer is
\* not computed, a run on admissible data may converge or give up
\* (RuntimeError: Optimal parameters not found)
FitOutcomes(y) ==
    IF FitRaises(y) THEN {[ok |-> FALSE, popt |-> None]}
    ELSE {[ok |-> FALSE, popt |-> None]}
             \cup {[ok |-> TRUE, popt |-> <<y[1], m, 0>>] : m \in MassValues}

\* mass_est = 0.0
MassOfFailedFit == 0

\* the try/except around curve_fit
MassFit ==
    /\ an.tag = "analysis"
    /\ an.pc = "MASS_FIT"
    /\ \E res \in FitOutcomes(an.lambda_0) :
           an' = [an EXCEPT
                     !.pc = "STRING_TENSION",
                     !.fit_y = IF 1 \in DOMAIN an.lambda_0
                               THEN FitData(an.lambda_0) ELSE None,
                     !.fit = res.ok,
                     !.popt = res.popt,
                     !.mass_est = IF res.ok THEN res.popt[2]
                                  ELSE MassOfFailedFit,
                     !.out = Append(@, IF res.ok THEN "GLUEBALL MASS"
                                       ELSE "Fit failed")]
    /\ RunUnchanged
    /\ UNCHANGED wolff

\* ------------------------------------------------------- string tension
\* np.log of a positive fixed-point real: x = 2^k * u with 1 <= u < 2,
\* log(u) = 2 * (y + y^3/3 + y^5/5 + y^7/7) with y = (u - 1) / (u + 1)
Ln2 == 2839
RECURSIVE LnReduced(_, _)
LnReduced(x, acc) ==
    IF x >= 2 * One THEN LnReduced(RDiv(x, 2), acc + Ln2)
    ELSE IF x < One THEN LnReduced(2 * x, acc - Ln2)
    ELSE Let1(FDiv(x - One, x + One), LAMBDA y :
             Let1(FMul(y, y), LAMBDA y2 :
                 acc + 2 * (y + RDiv(FMul(y, y2), 3)
                              + RDiv(FMul(FMul(y, y2), y2), 5)
                              + RDiv(FMul(FMul(FMul(y, y2), y2), y2), 7))))

Ln(x) == LnReduced(x, 0)

\* wilson_avg[r, 3] or wilson_avg[r, 4] raises IndexError: the second
\* comparison is evaluated only when the first is true
RowRaises(row) ==
    \/ Len(row) < 4
    \/ Len(row) < 5 /\ row[4] # NaN /\ row[4] > 0

\* if wilson_avg[r, 3] > 0 and wilson_avg[r, 4] > 0 (false for nan)
RowUsable(row) ==
    /\ row[4] # NaN /\ row[4] > 0
    /\ row[5] # NaN /\ row[5] > 0

\* V_R[r] as the ratio itself, the logarithm left out
PotentialWithoutLog(wil) ==
    Array([r \in 0..(Len(wil) - 1) |->
             IF RowUsable(wil[r + 1])
             THEN FDiv(wil[r + 1][4], wil[r + 1][5])
             ELSE NaN])

\* V_R[r]; nan where the condition of line 81 is false
PotentialOf(wil) ==
    Array([r \in 0..(Len(wil) - 1) |->
             IF RowUsable(wil[r + 1])
             THEN Ln(FDiv(wil[r + 1][4], wil[r + 1][5]))
             ELSE NaN])

\* the mask with separation 1 let in
InMaskFromOne(V, r) == V[r] # NaN /\ r + 1 >= 1

\* mask = np.isfinite(V_R) & (r_vals >= 2), with r_vals[r] = r + 1
InMask(V, r) == V[r] # NaN /\ r + 1 >= 2

MaskOf(V) == {r \in DOMAIN V : InMask(V, r)}

\* the regression started with one point
EnoughPointsOne(k) == k >= 1

\* if np.sum(mask) >= 2
EnoughPoints(k) == k >= 2

RECURSIVE SumSet(_, _, _)
SumSet(S, f, g) ==
    IF S = {} THEN 0
    ELSE Let1(CHOOSE r \in S : TRUE, LAMBDA r :
             f[r] * g[r] + SumSet(S \ {r}, f, g))

\* curve_fit(lambda r, s, c: s*r + c, r_vals[mask], V_R[mask]): the least
\* squares line through the points; with fewer points than parameters the
\* default method raises TypeError
LinearFit(V, S) ==
    Let1([r \in S |-> r + 1], LAMBDA rv :
    Let1([r \in S |-> 1], LAMBDA one :
        IF Cardinality(S) < 2 THEN [ok |-> FALSE, popt_s |-> None]
        ELSE Let1(<<Cardinality(S), SumSet(S, rv, one), SumSet(S, rv, rv),
                    SumSet(S, V, one), SumSet(S, rv, V)>>, LAMBDA q :
                 Let1(RDiv(q[1] * q[5] - q[2] * q[4],
                           q[1] * q[3] - q[2] * q[2]), LAMBDA s :
                     [ok |-> TRUE,
                      popt_s |-> <<s, RDiv(q[4] - s * q[2], q[1])>>]))))

\* lines 77-90
StringTension ==
    /\ an.tag = "analysis"
    /\ an.pc = "STRING_TENSION"
    /\ IF \E r \in 1..Len(an.wil) : RowRaises(an.wil[r])
       THEN an' = [an EXCEPT !.pc = "CRASHED", !.error = "IndexError"]
       ELSE \E V \in {PotentialOf(an.wil)} :
            \E S \in {MaskOf(V)} :
                IF EnoughPoints(Cardinality(S))
                THEN \E res \in {LinearFit(V, S)} :
                         IF res.ok
                         THEN an' = [an EXCEPT
                                        !.pc = "RATIO", !.V_R = V, !.mask = S,
                                        !.linear_fits = @ + 1,
                                        !.popt_s = res.popt_s,
                                        !.sigma_a2 = res.popt_s[1],
                                        !.out = Append(@, "STRING TENSION")]
                         ELSE an' = [an EXCEPT
                                        !.pc = "CRASHED", !.V_R = V,
                                        !.mask = S, !.sigma_a2 = NaN,
                                        !.linear_fits = @ + 1,
                                        !.error = "TypeError"]
                ELSE an' = [an EXCEPT !.pc = "RATIO", !.V_R = V, !.mask = S,
                                      !.sigma_a2 = NaN]
    /\ RunUnchanged
    /\ UNCHANGED wolff

\* the ratio printed for a mass of zero as well
RatioGuardNonNegative(sigma, m) == sigma # NaN /\ m >= 0

\* not np.isnan(sigma_a2) and mass_est > 0
RatioGuard(sigma, m) == sigma # NaN /\ m > 0

\* if not np.isnan(sigma_a2) and mass_est > 0: print the ratio
Ratio ==
    /\ an.tag = "analysis"
    /\ an.pc = "RATIO"
    /\ an' = [an EXCEPT
                 !.pc = "PLOT",
                 !.out = IF RatioGuard(an.sigma_a2, an.mass_est)
                         THEN Append(@, "RATIO") ELSE @]
    /\ RunUnchanged
    /\ UNCHANGED wolff

\* the plots: line 103 reads popt, which a failed fit never bound (NameError)
Plot ==
    /\ an.tag = "analysis"
    /\ an.pc = "PLOT"
    /\ IF an.popt = None
       THEN an' = [an EXCEPT !.pc = "CRASHED", !.error = "NameError"]
       ELSE an' = [an EXCEPT !.pc = "DONE"]
    /\ RunUnchanged
    /\ UNCHANGED wolff

\* ------------------------------------------------- the bundles analysed
\* operator time series ops_history[m][k][z]
OpsCorrelated ==
    << << <<3 * One, 2 * One, 2 * One, 2 * One>> >>,
       << <<0, 0, One, 0>> >> >>
OpsConstant ==
    << << <<One, One, One, One>> >>, << <<One, One, One, One>> >> >>
OpsAlternating ==
    << << <<One, -One, One, -One>> >>, << <<One, -One, One, -One>> >> >>
OpsShortAxis ==
    << << <<One, 0, 0>> >>, << <<0, One, One>> >> >>
OpsTwoOperators ==
    << << <<3 * One, 2 * One, 2 * One, 2 * One>>, <<One, 0, One, One>> >>,
       << <<0, 0, One, 0>>, <<0, One, 0, 0>> >> >>
OpsSecondConstant ==
    << << <<3 * One, 2 * One, 2 * One, 2 * One>>, <<One, One, One, One>> >>,
       << <<0, 0, One, 0>>, <<One, One, One, One>> >> >>
OpsLongAxis ==
    << << <<3 * One, 2 * One, 2 * One, One, One, One, One, One, 2 * One,
            2 * One>> >>,
       << <<0, 0, One, One, One, 2 * One, One, One, 0, 0>> >> >>
OpsChoices ==
    {OpsCorrelated, OpsConstant, OpsAlternating, OpsShortAxis,
     OpsTwoOperators, OpsSecondConstant, OpsLongAxis}

\* exp(0.1 * R) for R = 1..4
ExpTenth == <<4527, 5003, 5529, 6111>>

\* averaged Wilson loops wilson_avg[r][t]; row r + 1 is the separation R and
\* the potential reads the columns 3 and 4 (here 4 and 5)
\* W(R,3) / W(R,4) = exp(0.1) at every R
WilsonConstantRatio ==
    [r \in 1..4 |-> <<One, One, One, ExpTenth[1], One>>]
\* W(R,3) / W(R,4) = exp(0.1 * R)
WilsonLinearPotential ==
    [r \in 1..4 |-> <<One, One, One, ExpTenth[r], One>>]
\* R = 1 and R = 2 usable, R = 3 with a zero entry
WilsonOneUsable ==
    << <<One, One, One, 2 * One, One>>,
       <<One, One, One, ExpTenth[2], One>>,
       <<One, One, One, ExpTenth[3], 0>> >>
\* R = 1 usable and far off the line, R = 2 with a negative entry
WilsonNegativeEntry ==
    << <<One, One, One, 2 * One, One>>,
       <<One, One, One, -One, One>>,
       <<One, One, One, ExpTenth[3], One>>,
       <<One, One, One, ExpTenth[4], One>> >>
\* loops of a field with nan links
WilsonNaN == [r \in 1..3 |-> [t \in 1..5 |-> NaN]]
\* four columns only
WilsonNarrow == [r \in 1..3 |-> <<One, One, One, One>>]
WilsonChoices ==
    {WilsonConstantRatio, WilsonLinearPotential, WilsonOneUsable,
     WilsonNegativeEntry, WilsonNaN, WilsonNarrow}

\* the value of L stored with the arrays
LChoices == {3, 4, 10}

Bundles ==
    {[ops_history |-> ops, wilson_avg |-> wil, L |-> l, beta |-> 6] :
        ops \in OpsChoices, wil \in WilsonChoices, l \in LChoices}

InitAnalysis ==
    /\ RunIdle
    /\ wolff = NoLog
    /\ \E bundle \in Bundles : an = AnStart(bundle)

NextAnalysis ==
    \/ Load
    \/ BuildCorrelator
    \/ SolveEigen
    \/ MassFit
    \/ StringTension
    \/ Ratio
    \/ Plot

SpecAnalysis == InitAnalysis /\ [][NextAnalysis]_vars

\* ------------------------------------------------- one cluster step (Ising)
\* wolff_step(spins, L, beta) of ising3d.py, one statement of the loops per
\* step.  The three arrays stack_x, stack_y, stack_z are one array of sites;
\* slot k of the code is slot k + 1 here.  The draw np.random.random() < p_add
\* has both outcomes for every beta > 0.

\* the lattice sizes a step is run on
WolffSizes == {1, 2}

WolffSites(n) == (0 .. n - 1) \X (0 .. n - 1) \X (0 .. n - 1)

\* the six neighbours of the popped site, in the order of nx, ny, nz
WolffNeighbours(c, n) ==
    << <<(c[1] + 1) % n, c[2], c[3]>>,
       <<(c[1] - 1 + n) % n, c[2], c[3]>>,
       <<c[1], (c[2] + 1) % n, c[3]>>,
       <<c[1], (c[2] - 1 + n) % n, c[3]>>,
       <<c[1], c[2], (c[3] + 1) % n>>,
       <<c[1], c[2], (c[3] - 1 + n) % n>> >>

\* a site joins the cluster with its spin still as it was
SpinKeptAtPush(seed_spin) == seed_spin

\* spins[...] = -seed_spin
SpinAtPush(seed_spin) == -seed_spin

\* the spin fields a step starts from: np.ones, and fields of +1 and -1 that
\* earlier steps leave
WolffSpins(n) ==
    { [s \in WolffSites(n) |-> 1],
      [s \in WolffSites(n) |-> IF s[1] = 0 THEN 1 ELSE -1],
      [s \in WolffSites(n) |-> IF s = <<0, 0, 0>> THEN -1 ELSE 1] }

\* np.zeros(N, ...) for the stack arrays
WolffZeroSite == <<0, 0, 0>>

InitWolff ==
    /\ RunIdle
    /\ an = NoLog
    /\ \E n \in WolffSizes : \E sp \in WolffSpins(n) :
        wolff = [pc |-> "SEED", L |-> n, N |-> n * n * n, spins |-> sp,
                 seed_spin |-> 0,
                 stack |-> [k \in 1 .. n * n * n |-> WolffZeroSite],
                 stack_ptr |-> 0, c |-> WolffZeroSite, i |-> 0,
                 pushes |-> [s \in WolffSites(n) |-> 0],
                 flips |-> [s \in WolffSites(n) |-> 0],
                 max_ptr |-> 0, steps |-> 0, result |-> 0]

\* the push of site s: the write to slot stack_ptr and stack_ptr += 1.  A write
\* at slot N or beyond is outside the arrays; compiled without bounds checks
\* it has no defined outcome, and the step is recorded as "OUTSIDE"
WolffPush(w, s) ==
    IF w.stack_ptr >= w.N
    THEN [w EXCEPT !.pc = "OUTSIDE"]
    ELSE [w EXCEPT !.stack = [w.stack EXCEPT ![w.stack_ptr + 1] = s],
                   !.stack_ptr = w.stack_ptr + 1,
                   !.max_ptr = IF w.stack_ptr + 1 > w.max_ptr
                               THEN w.stack_ptr + 1 ELSE w.max_ptr,
                   !.pushes = [w.pushes EXCEPT ![s] = w.pushes[s] + 1]]

\* spins[s] = -seed_spin
WolffFlip(w, s, seed_spin) ==
    [w EXCEPT !.spins = [w.spins EXCEPT ![s] = SpinAtPush(seed_spin)],
              !.flips = [w.flips EXCEPT ![s] = w.flips[s] + 1]]

\* the seed site is drawn, flipped and pushed
WolffSeed ==
    /\ wolff.pc = "SEED"
    /\ \E r \in WolffSites(wolff.L) :
        \E seed \in {wolff.spins[r]} :
            wolff' = [WolffPush(WolffFlip(wolff, r, seed), r)
                        EXCEPT !.seed_spin = seed,
                               !.pc = IF @ = "OUTSIDE" THEN @ ELSE "WHILE",
                               !.steps = wolff.steps + 1]
    /\ RunUnchanged
    /\ UNCHANGED an

\* while stack_ptr > 0: the top of the stack is popped
WolffPop ==
    /\ wolff.pc = "WHILE"
    /\ wolff.stack_ptr > 0
    /\ wolff' = [wolff EXCEPT !.stack_ptr = wolff.stack_ptr - 1,
                              !.c = wolff.stack[wolff.stack_ptr],
                              !.i = 0,
                              !.pc = "FOR",
                              !.steps = wolff.steps + 1]
    /\ RunUnchanged
    /\ UNCHANGED an

\* for i in range(6): one neighbour of the popped site
WolffNeighbour ==
    /\ wolff.pc = "FOR"
    /\ wolff.i < 6
    /\ \E s \in {WolffNeighbours(wolff.c, wolff.L)[wolff.i + 1]} :
        \E add \in BOOLEAN :
            \E w \in {IF wolff.spins[s] = wolff.seed_spin /\ add
                      THEN WolffPush(WolffFlip(wolff, s, wolff.seed_spin), s)
                      ELSE wolff} :
                wolff' = [w EXCEPT !.i = wolff.i + 1,
                                   !.pc = IF @ = "OUTSIDE" THEN @
                                          ELSE IF wolff.i + 1 = 6 THEN "WHILE"
                                          ELSE "FOR",
                                   !.steps = wolff.steps + 1]
    /\ RunUnchanged
    /\ UNCHANGED an

\* the while loop ends and the step returns 1
WolffReturn ==
    /\ wolff.pc = "WHILE"
    /\ wolff.stack_ptr = 0
    /\ wolff' = [wolff EXCEPT !.pc = "RETURNED", !.result = 1,
                              !.steps = wolff.steps + 1]
    /\ RunUnchanged
    /\ UNCHANGED an

NextWolff == WolffSeed \/ WolffPop \/ WolffNeighbour \/ WolffReturn

SpecWolff == InitWolff /\ [][NextWolff]_vars

\* ------------------------------------------------------------------ claims
Abs(x) == IF x < 0 THEN -x ELSE x

\* the tolerance of "unitary with determinant 1"
Tol == One \div 64

\* m is unitary with determinant 1, to the tolerance
IsSU2(m) ==
    /\ ~IsNaNMat(m)
    /\ \A e \in {MatSub(MatMul(Dagger(m), m), IdMat)} :
           \A k \in 1..8 : Abs(e[k]) <= Tol
    /\ \A dt \in {Det(m)} : Abs(dt[1] - One) <= Tol /\ Abs(dt[2]) <= Tol

PhaseOrder == <<"COLD_START", "THERMALIZING", "MEASURING", "DONE">>

\* C1: the run passes through COLD_START, THERMALIZING, MEASURING, DONE in
\* that order and never returns to an earlier phase; exactly n_therm sweeps
\* are made in THERMALIZING; nothing is written to the operator time series
\* or the Wilson-loop accumulator, and no measurement is taken, before the
\* n_therm thermalisation sweeps are finished
C1_PhasesInOrder ==
    /\ Len(phase_log) \in 1..4
    /\ \A i \in 1..Len(phase_log) : phase_log[i].phase = PhaseOrder[i]
    /\ pc = phase_log[Len(phase_log)].phase
    /\ pc = "COLD_START" => sweeps = 0
    /\ pc = "THERMALIZING" => sweeps = i_therm /\ sweeps <= n_therm
    /\ pc \in {"COLD_START", "THERMALIZING"} =>
           ops_history = <<>> /\ wilson_avg = <<>> /\ meas_sweeps = <<>>
    /\ Len(phase_log) >= 3 =>
           phase_log[3].sweeps - phase_log[2].sweeps = n_therm
    /\ \A i \in 1..Len(meas_sweeps) : meas_sweeps[i] >= n_therm

C1_Witness ==
    /\ pc = "DONE"
    /\ Len(phase_log) = 4
    /\ sweeps > n_therm
    /\ Len(meas_sweeps) > 0

\* C2: each measurement is taken exactly n_skip sweeps after the previous
\* one (the first: after the end of thermalisation); when the run is DONE
\* there have been n_meas measurements and n_therm + n_meas * n_skip sweeps
C2_SkipSweepsBetweenMeasurements ==
    /\ \A i \in 1..Len(meas_sweeps) :
           meas_sweeps[i]
               - (IF i = 1 THEN phase_log[3].sweeps ELSE meas_sweeps[i - 1])
           = n_skip
    /\ pc = "MEASURING" => Len(meas_sweeps) = i_meas
    /\ pc = "DONE" =>
           /\ Len(meas_sweeps) = n_meas
           /\ sweeps = n_therm + n_meas * n_skip

C2_Witness ==
    /\ pc = "DONE"
    /\ Len(meas_sweeps) >= 2
    /\ meas_sweeps[2] > meas_sweeps[1]

\* C3: from the cold start, after any number of sweeps (with beta = 0 too)
\* every link of U is unitary with determinant 1
C3_LinksStaySU2 == \A l \in Links : IsSU2(U[l])

C3_Witness ==
    /\ beta = 0
    /\ sweeps >= 2
    /\ sweep_log.tag = "sweep"
    /\ U[ProbeLink] # IdMat
    /\ sweep_log.pre[ProbeLink] # IdMat
    /\ U[ProbeLink] # sweep_log.pre[ProbeLink]

\* the field the pass of direction mu of the logged sweep began with: the
\* field of the sweep's start with the links the earlier passes accepted
FieldBeforePass(log, mu) ==
    [l \in Links |->
        IF l[2] < mu /\ log.accept[l[2] + 1][l[1]] THEN log.U_prime[l]
        ELSE log.pre[l]]

\* C4 as stated: the staples used for the decisions of every direction mu of
\* a sweep are the staples of the field as it was at the start of the sweep
C4_StaplesOfSweepStart ==
    sweep_log.tag = "sweep" =>
        \A mu \in Dirs :
            sweep_log.Staples[mu + 1] = compute_staples_3d(sweep_log.pre, mu)

\* C4, amended: the staples used for the decisions of direction mu are
\* computed once, at the start of the pass of mu, from the field that holds
\* the links accepted in the passes of the earlier directions of this sweep;
\* each decision of the pass is taken from these staples
C4_StaplesOfPassStart ==
    sweep_log.tag = "sweep" =>
        \A mu \in Dirs :
            \A before \in {Array(FieldBeforePass(sweep_log, mu))} :
                /\ sweep_log.Staples[mu + 1] = compute_staples_3d(before, mu)
                /\ \A s \in Sites :
                       sweep_log.dS[mu + 1][s]
                           = ActionChange(beta, sweep_log.U_prime[<<s, mu>>],
                                          before[<<s, mu>>],
                                          sweep_log.Staples[mu + 1][s])

C4_Witness ==
    /\ sweep_log.tag = "sweep"
    /\ sweep_log.accept[1][ProbeLink[1]]
    /\ sweep_log.U_prime[ProbeLink] # sweep_log.pre[ProbeLink]
    /\ sweep_log.Staples[2] # compute_staples_3d(sweep_log.pre, 1)

\* C5: a proposal with dS <= 0 is accepted; one with dS > 0 is accepted
\* exactly when the link's own draw r = exp(-k) has r < exp(-dS), that is
\* dS < k; the link holds the proposal when accepted and its old value when not
C5_AcceptRule ==
    sweep_log.tag = "sweep" =>
        \A mu \in Dirs, s \in Sites :
            sweep_log.dS[mu + 1][s] # NaN =>
                /\ sweep_log.dS[mu + 1][s] <= 0 => sweep_log.accept[mu + 1][s]
                /\ sweep_log.dS[mu + 1][s] > 0 =>
                       (sweep_log.accept[mu + 1][s]
                            <=> sweep_log.dS[mu + 1][s] < sweep_log.unif[<<s, mu>>])
                /\ U[<<s, mu>>] = IF sweep_log.accept[mu + 1][s]
                                  THEN sweep_log.U_prime[<<s, mu>>]
                                  ELSE sweep_log.pre[<<s, mu>>]

C5_Witness ==
    /\ sweep_log.tag = "sweep"
    /\ sweep_log.dS[1][ProbeLink[1]] > 0
    /\ sweep_log.accept[1][ProbeLink[1]]
    /\ sweep_log.dS[1][ProbeLink[1]] < sweep_log.unif[ProbeLink]
    /\ U[ProbeLink] = sweep_log.U_prime[ProbeLink]

\* C6: after a sweep every link is its pre-sweep value (rejected) or
\* proposal @ pre-sweep value (accepted), by the one decision of that link
C6_OneDecisionPerLink ==
    sweep_log.tag = "sweep" =>
        \A l \in Links :
            U[l] = IF sweep_log.accept[l[2] + 1][l[1]]
                   THEN MatMul(sweep_log.R[l], sweep_log.pre[l])
                   ELSE sweep_log.pre[l]

C6_Witness ==
    /\ sweep_log.tag = "sweep"
    /\ sweep_log.accept[1][ProbeLink[1]]
    /\ sweep_log.pre[ProbeLink] # IdMat
    /\ U[ProbeLink] # sweep_log.pre[ProbeLink]
    /\ U[ProbeLink] # sweep_log.R[ProbeLink]

\* C7: a measurement (the smearing levels, the glueball operators, the
\* hybrid field, the Wilson loops) leaves every link of U unchanged
C7_MeasurementKeepsU ==
    meas_log.tag = "meas" => U = meas_log.U_before

C7_Witness ==
    /\ meas_log.tag = "meas"
    /\ meas_log.smeared[1] # U
    /\ meas_log.smeared[3] # meas_log.smeared[1]
    /\ meas_log.hybrid # U

\* C8: the field of smearing level k of a measurement, reached by further
\* rounds on the field of level k-1, is the production field smeared
\* smear_levels[k] rounds from scratch, and the operator of level k is
\* measured on it
C8_LevelsFromScratch ==
    meas_log.tag = "meas" =>
        \A k \in 1..n_ops :
            \A scratch \in {SmearSteps(meas_log.U_before, alpha, smear_levels[k])} :
                /\ meas_log.smeared[k] = scratch
                /\ meas_log.ops[k] = measure_glueball_3d(scratch)
                /\ ops_history[i_meas][k] = meas_log.ops[k]

C8_Witness ==
    /\ meas_log.tag = "meas"
    /\ i_meas = 2
    /\ ~IsNaNMat(meas_log.smeared[3][ProbeLink])
    /\ meas_log.smeared[1] # meas_log.U_before
    /\ meas_log.smeared[2] # meas_log.smeared[1]
    /\ meas_log.smeared[3] # meas_log.smeared[2]

\* C9: for every field, direction mu and lattice vector d, the staples of
\* the field moved cyclically by d are the staples of the field, moved by d:
\* the same value at the site s + d, also across the wrap L-1 -> 0
C9_StaplesTranslationInvariant ==
    staple_log.tag = "staples" =>
        \A s \in Sites :
            staple_log.of_moved[TranslateSite(s, staple_log.d)]
                = staple_log.of_U[s]

C9_Witness ==
    /\ staple_log.tag = "staples"
    /\ staple_log.d = <<L - 1, 0, 1>>
    /\ staple_log.of_moved # staple_log.of_U
    /\ \E s \in Sites :
           /\ s[1] = 0
           /\ staple_log.of_U[s] # staple_log.of_U[<<1, 1, 1>>]

\* C10 as stated: project_SU2 returns a unitary matrix of determinant 1 for
\* every blend (1-alpha)*link + (alpha/2)*staple sum of SU(2) links: every
\* spatial link of the first smearing round of a field of SU(2) links
C10_ProjectedLinksAreSU2 ==
    (/\ meas_log.tag = "meas"
     /\ \A l \in Links : IsSU2(meas_log.U_before[l]))
        => \A l \in Links :
               l[2] \in {0, 1} => IsSU2(meas_log.smeared[1][l])

\* C11 as stated: when project_SU2 is handed a matrix of determinant zero the
\* run aborts, so no non-finite matrix is ever stored as a link of a smeared
\* field (of a smearing level or of the hybrid field of the Wilson loops)
C11_NoNonFiniteLinkStored ==
    meas_log.tag = "meas" =>
        \A l \in Links :
            /\ \A k \in 1..n_ops : ~IsNaNMat(meas_log.smeared[k][l])
            /\ ~IsNaNMat(meas_log.hybrid[l])

C13_CorrelatorSymmetric ==
    (an.tag = "analysis" /\ an.C # None) =>
        \A t \in DOMAIN an.C :
            \A i \in DOMAIN an.C[t] : \A j \in DOMAIN an.C[t] :
                an.C[t][i][j] = an.C[t][j][i]

\* a correlator whose raw matrices are not symmetric, above and below N/2
C13_Witness ==
    /\ an.tag = "analysis"
    /\ an.C # None
    /\ Cardinality(DOMAIN an.C) = 4
    /\ an.raw[1][1][2] # an.raw[1][2][1]
    /\ an.raw[3][1][2] # an.raw[3][2][1]
    /\ an.C[1][1][2] = an.C[1][2][1]
    /\ an.C[3][1][2] = an.C[3][2][1]
    /\ an.C[1][1][2] # 0

\* the script has left the try/except around the mass fit
PastMassFit ==
    /\ an.tag = "analysis"
    /\ an.pc \in {"STRING_TENSION", "RATIO", "PLOT", "DONE", "CRASHED"}

\* C14 as stated: a time slice whose eigen-solve failed is marked invalid
\* (nan) without a fatal error, and no invalid slice is among the data passed
\* to the mass fit
C14_InvalidSlicesExcluded ==
    (PastMassFit /\ an.fit_y # None) =>
        \A t \in DOMAIN an.fit_y : an.fit_y[t] # NaN

\* C15 as stated: after a failed mass fit the mass is unavailable and is not
\* set to zero
C15_FailedFitNotZero ==
    (PastMassFit /\ an.fit = FALSE) => an.mass_est # 0

\* the script has left the string-tension block without an IndexError
PastStringTension ==
    /\ an.tag = "analysis"
    /\ \/ an.pc \in {"RATIO", "PLOT", "DONE"}
       \/ an.pc = "CRASHED" /\ an.error # "IndexError"

Printed(line) == \E k \in 1..Len(an.out) : an.out[k] = line

\* both Wilson-loop entries of the separation R are strictly positive numbers
BothPositive(R) ==
    /\ an.wil[R][4] # NaN /\ an.wil[R][4] > 0
    /\ an.wil[R][5] # NaN /\ an.wil[R][5] > 0

UsableSeparations == {R \in 1..Len(an.wil) : R >= 2 /\ BothPositive(R)}

\* C16: a separation R enters the linear fit only if R >= 2 and both
\* Wilson-loop entries used for V(R) are strictly positive; R = 1 never
\* enters, even with a finite V(R)
C16_OnlyUsableSeparationsFitted ==
    PastStringTension =>
        \A r \in an.mask : r + 1 >= 2 /\ BothPositive(r + 1)

\* a fit was run while V(1) was finite and left out, and a separation R >= 2
\* was left out for an entry that is not positive
C16_Witness ==
    /\ PastStringTension
    /\ an.linear_fits = 1
    /\ an.V_R[0] # NaN
    /\ 0 \notin an.mask
    /\ \E r \in DOMAIN an.V_R : r + 1 >= 2 /\ r \notin an.mask
    /\ an.mask # {}

\* C17: with fewer than 2 usable separations no linear regression is run, the
\* string tension keeps its nan marker and no string-tension value is printed
C17_TooFewPointsUnavailable ==
    (PastStringTension /\ Cardinality(UsableSeparations) < 2) =>
        /\ an.linear_fits = 0
        /\ an.sigma_a2 = NaN
        /\ ~Printed("STRING TENSION")

\* exactly one usable separation, next to a finite V(1)
C17_Witness ==
    /\ PastStringTension
    /\ Cardinality(UsableSeparations) = 1
    /\ an.V_R[0] # NaN
    /\ an.linear_fits = 0
    /\ an.sigma_a2 = NaN

\* the arrays of the bundle do not fit its metadata or the columns read
InconsistentBundle ==
    \/ Len(an.bundle.ops_history[1][1]) # an.bundle.L
    \/ \E r \in 1..Len(an.bundle.wilson_avg) :
           Len(an.bundle.wilson_avg[r]) < 5

\* C18 as stated: a bundle whose array shapes are inconsistent with its
\* metadata is rejected before any correlator, eigenvalue or fit is computed
C18_InconsistentBundleRejected ==
    (an.tag = "analysis" /\ InconsistentBundle) =>
        /\ an.pc \in {"LOAD", "CORRELATOR"}
        /\ an.C = None

\* the script has passed the line that prints the ratio
PastRatio ==
    /\ an.tag = "analysis"
    /\ \/ an.pc \in {"PLOT", "DONE"}
       \/ an.pc = "CRASHED" /\ an.error = "NameError"

\* C19: the ratio is printed exactly when the mass fit succeeded and the
\* potential fit produced a value
C19_RatioIffBothAvailable ==
    PastRatio =>
        (Printed("RATIO") <=>
            /\ an.fit = TRUE /\ Printed("GLUEBALL MASS")
            /\ an.linear_fits = 1 /\ an.sigma_a2 # NaN)

\* a run that printed the ratio after a fit returning the smallest mass
C19_Witness ==
    /\ PastRatio
    /\ Printed("RATIO")
    /\ an.fit = TRUE
    /\ an.mass_est = One \div 8
    /\ an.sigma_a2 # NaN

\* the tolerance of the fitted slope
FitTol == One \div 100

\* C20 as stated: for Wilson loops with W(R,3) / W(R,4) = exp(0.1) at every
\* R >= 2 the fitted string tension is 0.1
C20_ConstantRatioGivesTenth ==
    (PastStringTension /\ an.wil = WilsonConstantRatio) =>
        Abs(an.sigma_a2 - One \div 10) <= FitTol

\* C20: for W(R,3) / W(R,4) = exp(0.1) at every R the fitted line has slope
\* sigma = 0 and intercept 0.1; sigma = 0.1 is fitted when
\* W(R,3) / W(R,4) = exp(0.1 * R)
C20_SlopeOfThePotential ==
    PastStringTension =>
        /\ an.wil = WilsonConstantRatio =>
               /\ Abs(an.sigma_a2) <= FitTol
               /\ Abs(an.popt_s[2] - One \div 10) <= FitTol
        /\ an.wil = WilsonLinearPotential =>
               Abs(an.sigma_a2 - One \div 10) <= FitTol

C20_Witness ==
    /\ PastStringTension
    /\ an.wil = WilsonConstantRatio
    /\ an.linear_fits = 1
    /\ an.mask = {1, 2, 3}
    /\ an.V_R[1] > 0
    /\ Abs(an.sigma_a2) <= FitTol

\* C21 as stated: every proposal drawn by random_SU2_updates is a rotation
\* close to the identity: its identity component a0 = Re R[0][0] is positive
\* and at least sqrt(1 - epsilon^2), the cosine side of a half-angle whose
\* sine is at most epsilon
C21_ProposalsNearIdentity ==
    sweep_log.tag = "sweep" =>
        \A l \in Links :
            /\ ~IsNaNMat(sweep_log.R[l])
            /\ sweep_log.R[l][1] > 0
            /\ sweep_log.R[l][1] >= ISqrt(One * One - epsilon_met * epsilon_met) - 1

\* C22 as stated: in the pass of one direction no site's write changes a
\* staple input read by another site's decision, so the staple of every site
\* still to be decided, taken from the field as it is, is the one the pass
\* began with
C22_WritesLeaveStapleInputs ==
    sweep_log.tag = "pass" =>
        \A s \in OrderSites \ sweep_log.decided :
            DecisionStapleFresh(sweep_log.Staples, U, sweep_log.mu, s)
                = sweep_log.Staples[s]

\* C22: given the same proposals and the same uniform draws, every order in
\* which the sites of one direction are decided and written from the staples
\* computed at the start of the pass yields the field the pass as a whole
\* yields
C22_EveryOrderSameField ==
    (sweep_log.tag = "pass" /\ sweep_log.decided = Sites) =>
        U = sweep_log.vector

\* all sites decided, with an accepted write next to a rejected neighbour whose
\* staple that write has changed
C22_Witness ==
    /\ sweep_log.tag = "pass"
    /\ sweep_log.decided = Sites
    /\ sweep_log.mu = 0
    /\ U[<<0, 1, 0>>, 0] # IdMat
    /\ U[<<0, 0, 0>>, 0] = IdMat
    /\ sweep_log.U_prime[<<0, 0, 0>>, 0] # IdMat
    /\ DecisionStapleFresh(sweep_log.Staples, U, 0, <<0, 0, 0>>)
           # sweep_log.Staples[<<0, 0, 0>>]

\* C23 as stated: after a failed mass fit the script still extracts the
\* string tension and runs to its end; no later step fails on a name that
\* only a successful fit binds
C23_FailedFitRunsToEnd ==
    (PastMassFit /\ an.fit = FALSE) =>
        ~(an.pc = "CRASHED" /\ an.error = "NameError")

\* the sum over the measurements taken of their Wilson-loop value at (r, t)
RECURSIVE LoggedSum(_, _, _)
LoggedSum(k, r, t) ==
    IF k = 0 THEN 0 ELSE FAdd(LoggedSum(k - 1, r, t), wilson_log[k][r][t])

\* C24: when the run is DONE each entry of wilson_avg is the sum over the
\* n_meas measurements of that measurement's Wilson-loop value, divided once
\* by n_meas, and that is what the bundle holds
C24_WilsonEnsembleAverage ==
    pc = "DONE" =>
        /\ Len(wilson_log) = n_meas
        /\ \A r \in 1..R_max : \A t \in 1..T_max :
               \A total \in {LoggedSum(n_meas, r, t)} :
                   /\ wilson_avg[r][t] =
                          (IF total = NaN THEN NaN ELSE RDiv(total, n_meas))
                   /\ files[Len(files)].wilson_avg[r][t] = wilson_avg[r][t]

\* a finished run whose measurements all gave the same finite positive loops,
\* which are then the averages
C24_Witness ==
    /\ pc = "DONE"
    /\ \A k \in 1..n_meas : wilson_log[k] = wilson_log[1]
    /\ \A r \in 1..R_max : \A t \in 1..T_max :
           /\ wilson_log[1][r][t] # NaN
           /\ wilson_avg[r][t] = wilson_log[1][r][t]
    /\ wilson_avg[1][1] > 0

\* C25: a run that is not aborted passes through the four phases only and
\* eventually is DONE, having made its n_therm + n_meas * n_skip sweeps
C25_RunTerminates ==
    /\ [](pc \in {"COLD_START", "THERMALIZING", "MEASURING", "DONE"})
    /\ <>(pc = "DONE" /\ sweeps = n_therm + n_meas * n_skip)

\* a finished run with all its sweeps and measurements made
C25_Witness ==
    /\ pc = "DONE"
    /\ sweeps = n_therm + n_meas * n_skip
    /\ i_therm = n_therm
    /\ i_meas = n_meas

\* one smearing round with every new link of the directions 0 and 1 computed
\* from the field V the round began with
RoundFromStart(V) ==
    Array([l \in Links |->
        IF l[2] \in {0, 1}
        THEN project_SU2(
                 MatAdd(MatScale(One - alpha, V[l]),
                        MatScale(alpha \div 2,
                                 StapleLoop(V, l[2], 0, 2, l[1], ZeroMat))))
        ELSE V[l]])

\* the field the round of smearing level k began with
LevelStart(k) == IF k = 1 THEN meas_log.U_before ELSE meas_log.smeared[k - 1]

\* C26: in every smearing round the new links of both spatial directions are
\* computed from the field as it was when the round began (each smearing
\* level is one round after the level before it)
C26_RoundReadsItsStart ==
    meas_log.tag = "meas" =>
        \A k \in 1..n_ops :
            smear_levels[k] - (IF k = 1 THEN 0 ELSE smear_levels[k - 1]) = 1 =>
                meas_log.smeared[k] = RoundFromStart(LevelStart(k))

\* a round that replaced a direction-0 link and a direction-1 link whose
\* staples contain that direction-0 link
C26_Witness ==
    /\ meas_log.tag = "meas"
    /\ meas_log.smeared[1][<<<<0, 0, 0>>, 0>>] # meas_log.U_before[<<<<0, 0, 0>>, 0>>]
    /\ meas_log.smeared[1][<<<<0, 0, 0>>, 1>>] # meas_log.U_before[<<<<0, 0, 0>>, 1>>]
    /\ ~IsNaNMat(meas_log.smeared[1][<<<<0, 0, 0>>, 1>>])
    /\ SmearPass(meas_log.U_before,
                 SmearPass(meas_log.U_before, meas_log.U_before, alpha, 0),
                 alpha, 1) = meas_log.smeared[1]

\* the field V with every direction-2 link set to the identity
WithoutTimeLinks(V) == [l \in Links |-> IF l[2] = 2 THEN IdMat ELSE V[l]]

\* C27: smearing neither changes nor reads the direction-2 links: the
\* direction-2 links of every smeared field are those of the production
\* field, the spatial links of a smeared field do not depend on them, and the
\* hybrid field of the Wilson loops is the smeared field it is built from
C27_SmearingLeavesTimeLinks ==
    meas_log.tag = "meas" =>
        /\ \A s \in Sites :
               /\ \A k \in 1..n_ops :
                      meas_log.smeared[k][s, 2] = meas_log.U_before[s, 2]
               /\ meas_log.space_smeared[s, 2] = meas_log.U_before[s, 2]
        /\ meas_log.hybrid = meas_log.space_smeared
        /\ \A V \in {SmearSteps(WithoutTimeLinks(meas_log.U_before), alpha,
                                smear_levels[1])} :
               \A l \in Links :
                   l[2] \in {0, 1} => V[l] = meas_log.smeared[1][l]

\* a measurement on a field with a direction-2 link away from the identity,
\* whose smearing changed spatial links
C27_Witness ==
    /\ meas_log.tag = "meas"
    /\ meas_log.U_before[<<<<0, 0, 0>>, 2>>] # IdMat
    /\ meas_log.hybrid[<<<<0, 0, 0>>, 2>>] = meas_log.U_before[<<<<0, 0, 0>>, 2>>]
    /\ \E l \in Links : l[2] = 0 /\ meas_log.hybrid[l] # meas_log.U_before[l]
    /\ meas_log.hybrid = meas_log.space_smeared

\* C28: for every operator time series the unsymmetrized C(N - t) is the
\* transpose of C(t), so the symmetrized correlator has C(t) = C(N - t) for
\* every t in 1..N-1 and the folding loop changes no entry
C28_FoldChangesNothing ==
    (an.tag = "analysis" /\ an.C # None) =>
        /\ \A t \in DOMAIN an.raw :
               t > 0 => an.raw[Cardinality(DOMAIN an.raw) - t]
                            = Transposed(an.raw[t])
        /\ Reflective(an.sym)
        /\ an.C = an.sym

\* a correlator on four positions whose raw matrices differ along t and are
\* not symmetric
C28_Witness ==
    /\ an.tag = "analysis"
    /\ an.C # None
    /\ Cardinality(DOMAIN an.raw) = 4
    /\ an.raw[1] # an.raw[3]
    /\ an.raw[1] # an.raw[2]
    /\ an.sym[1] = an.sym[3]
    /\ an.C = an.sym

\* C29: no bundle is written before DONE; in DONE exactly one bundle has been
\* written, after all n_meas measurements, holding the operator series and
\* the Wilson-loop accumulator already divided by n_meas
C29_BundleOnlyWhenDone ==
    /\ pc # "DONE" => files = <<>>
    /\ pc = "DONE" =>
           /\ Len(files) = 1
           /\ i_meas = n_meas
           /\ Len(meas_sweeps) = n_meas
           /\ files[1].ops_history = ops_history
           /\ files[1].wilson_avg = wilson_avg
           /\ files[1].wilson_avg[1][1]
                  = FDivN(LoggedSum(Len(wilson_log), 1, 1), n_meas)

\* the one bundle of a finished run, with the operators of both the first
\* and the last measurement in it
C29_Witness ==
    /\ pc = "DONE"
    /\ Len(files) = 1
    /\ files[1].L = L
    /\ \A i \in 1..n_meas : \E z \in Coords : files[1].ops_history[i][1][z] # 0


\* the number of sites pushed so far in the step
WolffPushed == Cardinality({s \in WolffSites(wolff.L) : wolff.pushes[s] > 0})

\* C30: in one wolff_step on an L^3 lattice every site is flipped and pushed
\* at most once, and is flipped exactly when it is pushed; the stack pointer
\* never exceeds N = L^3, no write falls outside the stack arrays, and the
\* step returns, after at most 2 + 7 N statements of its loops, with the
\* stack empty.
C30_EachSitePushedOnce ==
    /\ \A s \in WolffSites(wolff.L) :
        /\ wolff.pushes[s] <= 1
        /\ wolff.flips[s] = wolff.pushes[s]
        /\ wolff.pushes[s] = 1 => wolff.spins[s] = -wolff.seed_spin
    /\ wolff.stack_ptr <= wolff.N
    /\ wolff.max_ptr <= wolff.N
    /\ wolff.pc # "OUTSIDE"
    /\ wolff.steps <= 2 + 7 * wolff.N
    /\ wolff.pc = "RETURNED" => wolff.stack_ptr = 0 /\ wolff.result = 1

\* a step on the 2 x 2 x 2 lattice has returned after its cluster took every
\* site, with several sites on the stack at once
C30_Witness ==
    /\ wolff.pc = "RETURNED"
    /\ wolff.L = 2
    /\ WolffPushed = wolff.N
    /\ wolff.max_ptr >= 3
    /\ wolff.stack_ptr = 0

====
